---- MODULE Spec2Model ----
(***************************************************************************)
(* The user account service of Hero-Backend (services/userService.js):     *)
(* the users table behind UserModel, the one-time-code lifecycle of email  *)
(* confirmation, and the offset pagination of getAllUsers.                 *)
(*                                                                         *)
(* Strings the code pattern-matches or concatenates (names, emails, the    *)
(* decimal strings of limit and offset) are sequences of one-character     *)
(* strings.  Times are milliseconds since the service started.  Each       *)
(* column has its own NULL of the column's type.                           *)
(***************************************************************************)
EXTENDS Integers, Sequences, FiniteSets, TLC

VARIABLES
    users,   \* the users table: users[id] is the row with primary key id
    now,     \* the wall clock, Date.now()
    last,    \* the service call that just ran, and what it returned or threw
    page,    \* the last getAllUsers call: its arguments and its result
    flight,  \* service calls in progress together, each at one of its awaits
    form     \* the greetings form: its React state and its requests in flight

vars == <<users, now, last, page, flight, form>>

-----------------------------------------------------------------------------
(* Bounds of the model *)

MaxUsers == 2        \* rows ever created in Spec
MaxTicks == 2        \* clock steps in Spec
MaxRows == 5         \* rows of the table in SpecPage

(* Program constants *)

OTP_TTL_MS == 15 * 60 * 1000
TickMs == OTP_TTL_MS \div 2     \* the clock's step in the model: half a code's life
DefaultLimit == 10
DefaultOffset == 0

-----------------------------------------------------------------------------
(* Column values *)

NullStr == "NULL"          \* NULL of a string column
NullTime == -1             \* NULL of a date column
NullNum == -1              \* null where a number is expected (nextOffset)
NoText == << >>            \* NULL / absent text

Codes == {"111111", "222222"}   \* the codes the email dispatcher can generate

InvalidOtp == "Invalid or expired OTP"
NotFound == "User not found"
UniqueViolation == "SequelizeUniqueConstraintError"
ValidationError == "SequelizeValidationError"

(* The attributes of UserModel, as the service names them. *)
Attributes ==
    { "email", "first_name", "last_name", "role", "google_id",
      "email_confirmed", "email_confirmation_otp",
      "email_confirmation_otp_expires", "refresh_token" }

(* A row as UserModel.create fills it when the caller gives no value. *)
DefaultRow ==
    [ present |-> TRUE,
      email |-> NoText, first_name |-> NoText, last_name |-> NoText,
      role |-> "user", google_id |-> NullStr,
      email_confirmed |-> FALSE,
      email_confirmation_otp |-> NullStr,
      email_confirmation_otp_expires |-> NullTime,
      refresh_token |-> NullStr ]

(* What a lookup yields when no row matches, and what a deleted row leaves. *)
NoRow == [DefaultRow EXCEPT !.present = FALSE]

Live(us, id) == id \in DOMAIN us /\ us[id].present

LiveIds(us) == { id \in DOMAIN us : us[id].present }

-----------------------------------------------------------------------------
(* The data store: UserModel's calls *)

(* Sequelize writes the keys of `values` that are attributes of the model
   and drops every other key. *)
Assign(row, values) ==
    [ c \in DOMAIN row |->
        IF c \in Attributes /\ c \in DOMAIN values THEN values[c] ELSE row[c] ]

(* UserModel.update(values, {where: {id}}) *)
Update(us, id, values) ==
    IF Live(us, id) THEN [us EXCEPT ![id] = Assign(us[id], values)] ELSE us

(* UserModel.findByPk(id) *)
getUserById(us, id) == IF Live(us, id) THEN us[id] ELSE NoRow

(* The row UserModel.create(data) builds.  created_at is the time of the
   insert and the table keeps its rows in the order of their inserts, so a
   row's place in the table stands for its created_at. *)
NewRow(data) == Assign(DefaultRow, data)

EmailTaken(us, email) == \E id \in LiveIds(us) : us[id].email = email

(* The error UserModel.create(data) throws, "" when it throws none. *)
CreateError(us, data) ==
    IF "email" \notin DOMAIN data THEN ValidationError
    ELSE IF EmailTaken(us, data["email"]) THEN UniqueViolation
    ELSE ""

-----------------------------------------------------------------------------
(* The email dispatcher *)

(* sendConfirmationEmail(email, id) generates a code, mails it and returns
   it as {otp}: any code of Codes. *)
sendConfirmationEmail == Codes

-----------------------------------------------------------------------------
(* The service operations, each a function of the table before the call.
   A result is [users: the table after the call, ok: whether it returned,
   err: the message of the error it threw, id: the primary key it was about,
   ret: the user it returned (NoRow for null)]. *)

Result(us, ok, err, id, ret) ==
    [users |-> us, ok |-> ok, err |-> err, id |-> id, ret |-> ret]

(* Variant: the expiry computed in seconds where the clock counts
   milliseconds. *)
otpExpiry_Seconds(t) == t + 15 * 60

(* new Date(Date.now() + 15 * 60 * 1000) *)
otpExpiry(t) == t + OTP_TTL_MS

(* Variant: the code written without its expiry. *)
OtpValues_CodeOnly(otp, t) == "email_confirmation_otp" :> otp

(* The values both issuing operations write. *)
OtpValues(otp, t) ==
    ("email_confirmation_otp" :> otp) @@
    ("email_confirmation_otp_expires" :> otpExpiry(t))

createUser(us, userData, otp, t) ==
    LET err == CreateError(us, userData)
        id == Len(us) + 1
        user == NewRow(userData)
    IN  IF err # "" THEN Result(us, FALSE, err, 0, NoRow)
        ELSE Result(Update(Append(us, user), id, OtpValues(otp, t)),
                    TRUE, "", id, user)

(* Variant: a resend that keeps a code that is still pending and only
   extends its life. *)
updateUserOTP_ExtendsOnly(us, userId, otp, t) ==
    LET user == getUserById(us, userId)
        kept == IF user.email_confirmation_otp = NullStr
                THEN otp ELSE user.email_confirmation_otp
    IN  IF ~user.present THEN Result(us, FALSE, NotFound, userId, NoRow)
        ELSE Result(Update(us, userId, OtpValues(kept, t)), TRUE, "", userId, user)

(* Variant: a resend that also marks the account confirmed. *)
updateUserOTP_Confirms(us, userId, otp, t) ==
    LET user == getUserById(us, userId)
    IN  IF ~user.present THEN Result(us, FALSE, NotFound, userId, NoRow)
        ELSE Result(Update(us, userId,
                           ("email_confirmed" :> TRUE) @@ OtpValues(otp, t)),
                    TRUE, "", userId, user)

updateUserOTP(us, userId, otp, t) ==
    LET user == getUserById(us, userId)
    IN  IF ~user.present THEN Result(us, FALSE, NotFound, userId, NoRow)
        ELSE Result(Update(us, userId, OtpValues(otp, t)), TRUE, "", userId, user)

createGoogleUser(us, userData) ==
    LET data == ("email_confirmed" :> TRUE) @@ userData
        err == CreateError(us, data)
        user == NewRow(data)
    IN  IF err # "" THEN Result(us, FALSE, err, 0, NoRow)
        ELSE Result(Append(us, user), TRUE, "", Len(us) + 1, user)

updateUser(us, id, userData) ==
    IF /\ Live(us, id)
       /\ "email" \in DOMAIN userData
       /\ \E o \in LiveIds(us) \ {id} : us[o].email = userData["email"]
    THEN Result(us, FALSE, UniqueViolation, id, NoRow)
    ELSE LET after == Update(us, id, userData)
         IN  Result(after, TRUE, "", id, getUserById(after, id))

deleteUser(us, id) ==
    Result(IF Live(us, id) THEN [us EXCEPT ![id] = NoRow] ELSE us,
           TRUE, "", id, NoRow)

(* Variant: a code still accepted at the instant it expires. *)
OtpMatches_NotBefore(row, otp, t) ==
    /\ row.email_confirmation_otp = otp
    /\ row.email_confirmation_otp_expires # NullTime
    /\ row.email_confirmation_otp_expires >= t

(* The where clause of verifyEmailOTP's findOne: id, code, and an expiry
   after new Date().  A NULL expiry compares greater than nothing. *)
OtpMatches(row, otp, t) ==
    /\ row.email_confirmation_otp = otp
    /\ row.email_confirmation_otp_expires # NullTime
    /\ row.email_confirmation_otp_expires > t

Confirmed ==
    ("email_confirmed" :> TRUE) @@
    ("email_confirmation_otp" :> NullStr) @@
    ("email_confirmation_otp_expires" :> NullTime)

(* Variant: a wrong attempt burns the pending code. *)
verifyEmailOTP_BurnsCode(us, userId, otp, t) ==
    IF Live(us, userId) /\ OtpMatches(us[userId], otp, t)
    THEN LET after == Update(us, userId, Confirmed)
         IN  Result(after, TRUE, "", userId, after[userId])
    ELSE Result(Update(us, userId,
                       ("email_confirmation_otp" :> NullStr) @@
                       ("email_confirmation_otp_expires" :> NullTime)),
                FALSE, InvalidOtp, userId, NoRow)

(* Variant: the account is confirmed and the code left in place. *)
verifyEmailOTP_KeepsCode(us, userId, otp, t) ==
    IF Live(us, userId) /\ OtpMatches(us[userId], otp, t)
    THEN LET after == Update(us, userId, "email_confirmed" :> TRUE)
         IN  Result(after, TRUE, "", userId, after[userId])
    ELSE Result(us, FALSE, InvalidOtp, userId, NoRow)

verifyEmailOTP(us, userId, otp, t) ==
    IF Live(us, userId) /\ OtpMatches(us[userId], otp, t)
    THEN LET after == Update(us, userId, Confirmed)
         IN  Result(after, TRUE, "", userId, after[userId])
    ELSE Result(us, FALSE, InvalidOtp, userId, NoRow)

(* UserModel.update({refreshToken: null}, {where: {id}}) *)
revokeRefreshToken(us, userId) ==
    Result(Update(us, userId, "refreshToken" :> NullStr), TRUE, "", userId, NoRow)

-----------------------------------------------------------------------------
(* The callers' inputs *)

AnnEmail == <<"a", "n", "n", "@", "x">>
BobEmail == <<"b", "o", "b", "@", "x">>

(* userData of a registration: the fields a registering user fills in.  The
   third lacks the required email. *)
Registrations ==
    << ("email" :> AnnEmail) @@ ("first_name" :> <<"A", "n", "n">>) @@
         ("last_name" :> <<"L", "e", "e">>),
       ("email" :> BobEmail) @@ ("first_name" :> <<"B", "o", "b">>) @@
         ("last_name" :> <<"A", "n", "g">>) @@ ("role" :> "admin"),
       ("first_name" :> <<"E", "v", "e">>) >>

(* userData of a first federated login: the provider's profile. *)
GoogleProfiles ==
    << ("google_id" :> "g-1") @@ Registrations[2] >>

(* userData handed to updateUser: any columns. *)
UpdateInputs ==
    << "email_confirmed" :> TRUE,
       "email_confirmation_otp" :> "111111",
       "email_confirmation_otp_expires" :> NullTime,
       "refresh_token" :> "tok" >>

(* The ids a caller passes: the id of every stored user, and one that names
   no row. *)
CallerIds == LiveIds(users) \cup {Len(users) + 1}

-----------------------------------------------------------------------------
(* What the model records about a call *)

Call(op, otp, r) ==
    [ op |-> op, id |-> r.id, otp |-> otp, ok |-> r.ok, err |-> r.err,
      ret |-> r.ret ]

NoCall ==
    [ op |-> "", id |-> 0, otp |-> NullStr, ok |-> TRUE, err |-> "",
      ret |-> NoRow ]

(* The greetings form as mounted: lines 39-42, and no submission made. *)
NoError == << >>

NoPost == [body |-> "", status |-> "", score |-> "", media |-> << >>]

NoForm ==
    [ greetings |-> "", files |-> << >>, fileError |-> NoError,
      isUploading |-> FALSE, pc |-> "idle",
      closure |-> [files |-> << >>, greetings |-> ""],
      uploads |-> << >>, post |-> NoPost, runs |-> 0 ]

(* No calls in progress. *)
NoFlight == [start |-> << >>, calls |-> << >>]

(* A getAllUsers call that has not returned yet. *)
Request(limit, offset, search, role) ==
    [ called |-> FALSE, limit |-> limit, offset |-> offset,
      search |-> search, role |-> role,
      users |-> << >>, totalCount |-> 0, nextOffset |-> -1 ]

NoPage ==
    Request([kind |-> "undefined", n |-> 0, s |-> << >>],
            [kind |-> "undefined", n |-> 0, s |-> << >>], << >>, "NULL")

-----------------------------------------------------------------------------
(* The actions: one service call each, and the clock *)

CreateUser ==
    /\ Len(users) < MaxUsers
    /\ \E k \in DOMAIN Registrations, otp \in sendConfirmationEmail :
         LET r == createUser(users, Registrations[k], otp, now)
         IN  /\ users' = r.users
             /\ last' = Call("createUser", IF r.ok THEN otp ELSE NullStr, r)
    /\ UNCHANGED <<now, page, flight, form>>

CreateGoogleUser ==
    /\ Len(users) < MaxUsers
    /\ \E k \in DOMAIN GoogleProfiles :
         LET r == createGoogleUser(users, GoogleProfiles[k])
         IN  /\ users' = r.users
             /\ last' = Call("createGoogleUser", NullStr, r)
    /\ UNCHANGED <<now, page, flight, form>>

UpdateUserOTP ==
    /\ \E userId \in CallerIds, otp \in sendConfirmationEmail :
         LET r == updateUserOTP(users, userId, otp, now)
         IN  /\ users' = r.users
             /\ last' = Call("updateUserOTP", IF r.ok THEN otp ELSE NullStr, r)
    /\ UNCHANGED <<now, page, flight, form>>

VerifyEmailOTP ==
    /\ \E userId \in CallerIds, otp \in Codes :
         LET r == verifyEmailOTP(users, userId, otp, now)
         IN  /\ users' = r.users
             /\ last' = Call("verifyEmailOTP", otp, r)
    /\ UNCHANGED <<now, page, flight, form>>

UpdateUser ==
    /\ \E id \in CallerIds, k \in DOMAIN UpdateInputs :
         LET r == updateUser(users, id, UpdateInputs[k])
         IN  /\ users' = r.users
             /\ last' = Call("updateUser", NullStr, r)
    /\ UNCHANGED <<now, page, flight, form>>

DeleteUser ==
    /\ \E id \in CallerIds :
         LET r == deleteUser(users, id)
         IN  /\ users' = r.users
             /\ last' = Call("deleteUser", NullStr, r)
    /\ UNCHANGED <<now, page, flight, form>>

RevokeRefreshToken ==
    /\ \E userId \in CallerIds :
         LET r == revokeRefreshToken(users, userId)
         IN  /\ users' = r.users
             /\ last' = Call("revokeRefreshToken", NullStr, r)
    /\ UNCHANGED <<now, page, flight, form>>

Tick ==
    /\ now < MaxTicks * TickMs
    /\ now' = now + TickMs
    /\ last' = NoCall
    /\ UNCHANGED <<users, page, flight, form>>

Init ==
    /\ users = << >>
    /\ now = 0
    /\ last = NoCall
    /\ page = NoPage
    /\ flight = NoFlight
    /\ form = NoForm

Next ==
    \/ CreateUser
    \/ CreateGoogleUser
    \/ UpdateUserOTP
    \/ VerifyEmailOTP
    \/ UpdateUser
    \/ DeleteUser
    \/ RevokeRefreshToken
    \/ Tick

Spec == Init /\ [][Next]_vars

(* The operations that create accounts and manage their codes and tokens:
   every operation but updateUser, which writes whatever its caller passes. *)
NextLifecycle ==
    \/ CreateUser
    \/ CreateGoogleUser
    \/ UpdateUserOTP
    \/ VerifyEmailOTP
    \/ DeleteUser
    \/ RevokeRefreshToken
    \/ Tick

SpecLifecycle == Init /\ [][NextLifecycle]_vars

-----------------------------------------------------------------------------
(* JavaScript values of getAllUsers' limit and offset: undefined, a number,
   or a string of decimal digits (a query parameter as the HTTP layer hands
   it on). *)

Undefined == [kind |-> "undefined", n |-> 0, s |-> << >>]
Num(n) == [kind |-> "number", n |-> n, s |-> << >>]
Str(s) == [kind |-> "string", n |-> 0, s |-> s]

DigitChars == <<"0", "1", "2", "3", "4", "5", "6", "7", "8", "9">>

DigitValue(c) == (CHOOSE d \in 1..10 : DigitChars[d] = c) - 1

(* String(n) for an integer n >= 0 *)
RECURSIVE ToDigits(_)
ToDigits(n) ==
    IF n < 10 THEN <<DigitChars[n + 1]>>
    ELSE Append(ToDigits(n \div 10), DigitChars[(n % 10) + 1])

(* The number a string of digits denotes: parseInt(s) and Number(s) agree on
   such strings. *)
RECURSIVE DigitsToNumber(_)
DigitsToNumber(s) ==
    IF s = << >> THEN 0
    ELSE 10 * DigitsToNumber(SubSeq(s, 1, Len(s) - 1)) + DigitValue(s[Len(s)])

parseInt(v) == IF v.kind = "string" THEN DigitsToNumber(v.s) ELSE v.n

(* v + n, n a number: the sum of two numbers, the concatenation of a string
   and the number's decimal digits. *)
Plus(v, n) == IF v.kind = "string" THEN Str(v.s \o ToDigits(n)) ELSE Num(v.n + n)

(* v < n, n a number: a string operand is converted to the number it denotes. *)
LessThan(v, n) == parseInt(v) < n

-----------------------------------------------------------------------------
(* getAllUsers *)

Lower(c) ==
    CASE c = "A" -> "a" [] c = "B" -> "b" [] c = "E" -> "e"
      [] c = "L" -> "l" [] c = "N" -> "n" [] OTHER -> c

(* text ILIKE pattern: % is any run of characters, _ any one character,
   letters match whatever their case. *)
RECURSIVE ILike(_, _)
ILike(text, pattern) ==
    IF pattern = << >> THEN text = << >>
    ELSE IF Head(pattern) = "%"
    THEN \/ ILike(text, Tail(pattern))
         \/ text # << >> /\ ILike(Tail(text), pattern)
    ELSE /\ text # << >>
         /\ Head(pattern) = "_" \/ Lower(Head(pattern)) = Lower(Head(text))
         /\ ILike(Tail(text), Tail(pattern))

(* whereClause: the search term in any of the three columns, and the role. *)
Where(row, search, role) ==
    /\ search # << >> =>
         LET pattern == <<"%">> \o search \o <<"%">>
         IN  \/ ILike(row.first_name, pattern)
             \/ ILike(row.last_name, pattern)
             \/ ILike(row.email, pattern)
    /\ role # NullStr => row.role = role

Excluded ==
    {"refresh_token", "email_confirmation_otp", "email_confirmation_otp_expires"}

(* A row with the excluded attributes left out, and its id. *)
Listed(us, id) ==
    [ c \in (Attributes \ Excluded) \cup {"id"} |->
        IF c = "id" THEN id ELSE us[id][c] ]

(* The ids of the matching rows by created_at, latest first. *)
RECURSIVE Latest(_, _, _, _)
Latest(us, search, role, id) ==
    IF id = 0 THEN << >>
    ELSE (IF Live(us, id) /\ Where(us[id], search, role) THEN <<id>> ELSE << >>)
         \o Latest(us, search, role, id - 1)

(* UserModel.findAndCountAll: count is the number of matching rows, rows the
   `limit` rows after the first `offset` of them. *)
findAndCountAll(us, search, role, limit, offset) ==
    LET ids == Latest(us, search, role, Len(us))
        from == offset + 1
        to == IF offset + limit < Len(ids) THEN offset + limit ELSE Len(ids)
    IN  [ count |-> Len(ids),
          rows |-> [ k \in 1..(IF to < from THEN 0 ELSE to - from + 1) |->
                       Listed(us, ids[from + k - 1]) ] ]

getAllUsers(us, limitArg, offsetArg, search, role) ==
    LET limit == IF limitArg.kind = "undefined" THEN Num(DefaultLimit) ELSE limitArg
        offset == IF offsetArg.kind = "undefined" THEN Num(DefaultOffset) ELSE offsetArg
        found == findAndCountAll(us, search, role, parseInt(limit), parseInt(offset))
        nextOffset ==
            IF LessThan(Plus(offset, Len(found.rows)), found.count)
            THEN parseInt(offset) + parseInt(limit)
            ELSE NullNum
    IN  [ users |-> found.rows, totalCount |-> found.count,
          nextOffset |-> nextOffset ]

-----------------------------------------------------------------------------
(* The listing on its own: a table of accounts and the calls of getAllUsers *)

NamePool == << <<"A", "n", "n">>, <<"B", "o", "b">>, <<"E", "v", "e">> >>

(* The k-th account of the table: a confirmed account with its own email. *)
Account(k) ==
    [ DefaultRow EXCEPT
        !.email = <<"u">> \o ToDigits(k) \o <<"@", "x">>,
        !.first_name = NamePool[(k % 3) + 1],
        !.last_name = <<"L", "e", "e">>,
        !.role = IF k % 2 = 0 THEN "admin" ELSE "user",
        !.email_confirmed = TRUE ]

Numbers == 0..(MaxRows + 1)

LimitInputs ==
    {Undefined} \cup { Num(n) : n \in 1..3 } \cup { Str(ToDigits(n)) : n \in 1..3 }

OffsetInputs ==
    {Undefined} \cup { Num(n) : n \in Numbers } \cup { Str(ToDigits(n)) : n \in Numbers }

SearchInputs == { << >>, <<"a", "N">>, <<"@">> }

RoleInputs == { NullStr, "admin" }

(* The call returns. *)
GetAllUsers ==
    /\ ~page.called
    /\ LET r == getAllUsers(users, page.limit, page.offset, page.search, page.role)
       IN  page' = [ page EXCEPT !.called = TRUE, !.users = r.users,
                                 !.totalCount = r.totalCount,
                                 !.nextOffset = r.nextOffset ]
    /\ UNCHANGED <<users, now, last, flight, form>>

(* A table of any size up to MaxRows, and a call with any arguments. *)
InitPage ==
    /\ \E n \in 0..MaxRows : users = [ k \in 1..n |-> Account(k) ]
    /\ now = 0
    /\ last = NoCall
    /\ \E limit \in LimitInputs, offset \in OffsetInputs,
          search \in SearchInputs, role \in RoleInputs :
         page = Request(limit, offset, search, role)
    /\ flight = NoFlight
    /\ form = NoForm

NextPage == GetAllUsers

SpecPage == InitPage /\ [][NextPage]_vars

-----------------------------------------------------------------------------
(* Properties of the one-time code *)

(* The times the clock can show, and some it cannot reach. *)
Times == { k * TickMs : k \in 0..(MaxTicks + 3) }

OtpColumns == {"email_confirmation_otp", "email_confirmation_otp_expires"}

(* C1: verifyEmailOTP(userId, otp) returns exactly when a stored user has
   that id, that code and an expiry later than the time of the call; every
   other call throws 'Invalid or expired OTP'. *)
C1_VerifySucceedsIffMatch ==
    [][ last'.op = "verifyEmailOTP" =>
          /\ last'.ok <=>
               \E id \in DOMAIN users :
                  /\ users[id].present
                  /\ id = last'.id
                  /\ users[id].email_confirmation_otp = last'.otp
                  /\ users[id].email_confirmation_otp_expires # NullTime
                  /\ users[id].email_confirmation_otp_expires > now
          /\ ~last'.ok => last'.err = "Invalid or expired OTP" ]_vars

(* A call with the stored code at the very instant the code expires: it fails. *)
C1_Witness ==
    /\ last.op = "verifyEmailOTP" /\ ~last.ok
    /\ Live(users, last.id)
    /\ users[last.id].email_confirmation_otp = last.otp
    /\ users[last.id].email_confirmation_otp_expires = now

(* C2: a verifyEmailOTP call that throws leaves every row of the table as it
   was. *)
C2_FailedVerifyChangesNothing ==
    [][ last'.op = "verifyEmailOTP" /\ ~last'.ok => users' = users ]_vars

(* A wrong code for a user whose code is pending and not expired, beside a
   second user. *)
C2_Witness ==
    /\ last.op = "verifyEmailOTP" /\ ~last.ok
    /\ Live(users, last.id)
    /\ users[last.id].email_confirmation_otp \in Codes \ {last.otp}
    /\ users[last.id].email_confirmation_otp_expires > now
    /\ Cardinality(LiveIds(users)) = 2

(* C3: a verifyEmailOTP call that returns leaves the user confirmed with both
   code columns NULL; from then on, at any time, the same call fails while
   the row stays as it is, and a second call right after the first fails. *)
C3_CodeConfirmsOnce ==
    [][ /\ last'.op = "verifyEmailOTP" /\ last'.ok =>
             /\ Live(users', last'.id)
             /\ users'[last'.id].email_confirmed = TRUE
             /\ users'[last'.id].email_confirmation_otp = NullStr
             /\ users'[last'.id].email_confirmation_otp_expires = NullTime
             /\ \A t \in Times :
                  ~verifyEmailOTP(users', last'.id, last'.otp, t).ok
        /\ ( /\ last.op = "verifyEmailOTP" /\ last.ok
             /\ last'.op = "verifyEmailOTP"
             /\ last'.id = last.id /\ last'.otp = last.otp )
           => ~last'.ok ]_vars

(* The account was just confirmed with the code it was sent. *)
C3_Witness ==
    /\ last.op = "verifyEmailOTP" /\ last.ok
    /\ users[last.id].email_confirmed

(* C4: a createUser call that returns has added one row, unconfirmed, holding
   the dispatched code and an expiry 15 minutes after the call; the user it
   returns is that row as it was inserted, before the code was stored. *)
C4_NewUserHoldsFreshCode ==
    [][ last'.op = "createUser" /\ last'.ok =>
          /\ last'.id \notin DOMAIN users
          /\ DOMAIN users' = DOMAIN users \cup {last'.id}
          /\ \A id \in DOMAIN users : users'[id] = users[id]
          /\ users'[last'.id].present
          /\ users'[last'.id].email_confirmed = FALSE
          /\ last'.otp \in Codes
          /\ users'[last'.id].email_confirmation_otp = last'.otp
          /\ users'[last'.id].email_confirmation_otp_expires = now + 900 * 1000
          /\ \A c \in DOMAIN last'.ret \ OtpColumns :
               last'.ret[c] = users'[last'.id][c] ]_vars

(* A second registration, some time after the service started. *)
C4_Witness ==
    /\ last.op = "createUser" /\ last.ok
    /\ last.id = 2
    /\ now > 0

Paired(row) ==
    (row.email_confirmation_otp = NullStr)
        <=> (row.email_confirmation_otp_expires = NullTime)

(* C5: every stored user with email_confirmed = true has both code columns
   NULL. *)
C5_ConfirmedHasNoOtp ==
    \A id \in LiveIds(users) :
       users[id].email_confirmed =>
          /\ users[id].email_confirmation_otp = NullStr
          /\ users[id].email_confirmation_otp_expires = NullTime

(* C6, as claimed: for every stored user the code and its expiry are both
   NULL or both set. *)
C6_OtpPairedAlways == \A id \in LiveIds(users) : Paired(users[id])

(* C6, amended: no operation other than updateUser sets or clears one of the
   two columns without the other: after such a call every row whose code
   columns it wrote, and every row it inserted, has both NULL or both set. *)
C6_OnlyUpdateUserSplitsPair ==
    [][ last'.op \notin {"", "updateUser"} =>
          \A id \in LiveIds(users') :
             \/ /\ Live(users, id)
                /\ \A c \in OtpColumns : users'[id][c] = users[id][c]
             \/ Paired(users'[id]) ]_vars

(* A resend to a user whose expiry updateUser had cleared alone. *)
C6_Witness ==
    /\ last.op = "updateUserOTP" /\ last.ok
    /\ ~Paired(last.ret)
    /\ Paired(users[last.id])

Confirms(id) ==
    /\ Live(users, id) /\ ~users[id].email_confirmed
    /\ Live(users', id) /\ users'[id].email_confirmed

(* C7, as claimed: a step in which a stored user's email_confirmed goes from
   false to true is a verifyEmailOTP call for that user that returned. *)
C7_OnlyVerifyConfirms ==
    [][ \A id \in DOMAIN users :
          Confirms(id) =>
             last'.op = "verifyEmailOTP" /\ last'.ok /\ last'.id = id ]_vars

(* C7, amended: such a step is a verifyEmailOTP call for that user that
   returned, or an updateUser call for that user. *)
C7_VerifyOrUpdateUserConfirms ==
    [][ \A id \in DOMAIN users :
          Confirms(id) =>
             /\ last'.id = id /\ last'.ok
             /\ last'.op \in {"verifyEmailOTP", "updateUser"} ]_vars

(* The second user confirmed by a code, some time after the service started. *)
C7_Witness ==
    /\ last.op = "verifyEmailOTP" /\ last.ok /\ last.id = 2
    /\ users[2].email_confirmed
    /\ now > 0

(* C8: an updateUserOTP call that returns leaves the dispatched code stored
   with an expiry 15 minutes after the call; from then on, while the row
   stays as it is, verifyEmailOTP returns for that code at every time before
   the expiry and throws for every other code at every time; a verifyEmailOTP
   call right after the resend returns exactly for the new code. *)
C8_ResendReplacesCode ==
    [][ /\ last'.op = "updateUserOTP" /\ last'.ok =>
             /\ last'.otp \in Codes
             /\ users'[last'.id].email_confirmation_otp = last'.otp
             /\ users'[last'.id].email_confirmation_otp_expires = now + 900 * 1000
             /\ \A t \in Times, otp \in Codes :
                  t >= now =>
                     ( verifyEmailOTP(users', last'.id, otp, t).ok
                         <=> (otp = last'.otp /\ t < now + 900 * 1000) )
        /\ ( /\ last.op = "updateUserOTP" /\ last.ok
             /\ last'.op = "verifyEmailOTP" /\ last'.id = last.id )
           => (last'.ok <=> last'.otp = last.otp) ]_vars

(* A resend that replaced a different code that had not expired yet. *)
C8_Witness ==
    /\ last.op = "updateUserOTP" /\ last.ok
    /\ last.ret.email_confirmation_otp \in Codes \ {last.otp}
    /\ last.ret.email_confirmation_otp_expires > now

(* C9: after revokeRefreshToken(userId) the stored refresh_token of that user
   is NULL. *)
C9_RevokeNullsRefreshToken ==
    last.op = "revokeRefreshToken" /\ Live(users, last.id) =>
       users[last.id].refresh_token = NullStr

-----------------------------------------------------------------------------
(* Properties of the listing *)

(* C10: for limit >= 1 and offset >= 0, passed as numbers or as decimal
   strings, nextOffset is null exactly when offset plus the number of
   returned rows reaches totalCount, and is offset + limit otherwise. *)
C10_NextOffset ==
    ( /\ page.called
      /\ page.limit.kind # "undefined" /\ page.offset.kind # "undefined"
      /\ parseInt(page.limit) >= 1 /\ parseInt(page.offset) >= 0 )
    => LET offset == parseInt(page.offset)
           limit == parseInt(page.limit)
       IN  IF offset + Len(page.users) >= page.totalCount
           THEN page.nextOffset = NullNum
           ELSE page.nextOffset = offset + limit

-----------------------------------------------------------------------------
(* Calls in progress together.  A service method runs up to an await, the
   event loop runs other calls, and the method goes on when its promise
   settles: each database call and each email dispatch is one step.

   A call is [op, userId: the id it was given (createUser: the id of the row
   it inserted, 0 before), otp: the code it was given (verifyEmailOTP) or the
   code the dispatcher generates for it, k: the registration it was given
   (createUser), pc: the await it stands at, ok and err: its outcome]. *)

MaxCalls == 2        \* calls in progress together

NewCall(op, userId, otp, k) ==
    [ op |-> op, userId |-> userId, otp |-> otp, k |-> k,
      pc |-> "start", ok |-> FALSE, err |-> "" ]

Returned(call) == [call EXCEPT !.pc = "done", !.ok = TRUE]

(* A method that caught the rejection and threw an error of its own. *)
Thrown_Masked(call, err) ==
    [call EXCEPT !.pc = "done", !.ok = FALSE, !.err = "Failed to create user"]

Thrown(call, err) == [call EXCEPT !.pc = "done", !.ok = FALSE, !.err = err]

At(i, op, pc) ==
    /\ i \in DOMAIN flight.calls
    /\ flight.calls[i].op = op
    /\ flight.calls[i].pc = pc

Continue(i, call) ==
    flight' = [flight EXCEPT !.calls[i] = call]

(* verifyEmailOTP, line 124: findOne; line 133: throw when it found none. *)
VerifyFind ==
    /\ \E i \in DOMAIN flight.calls :
         /\ At(i, "verifyEmailOTP", "start")
         /\ LET call == flight.calls[i]
            IN  IF Live(users, call.userId)
                   /\ OtpMatches(users[call.userId], call.otp, now)
                THEN Continue(i, [call EXCEPT !.pc = "write"])
                ELSE Continue(i, Thrown(call, InvalidOtp))
    /\ UNCHANGED <<users, now, last, page, form>>

(* verifyEmailOTP, lines 136-140: user.save() writes the three changed
   attributes of the row with the instance's id. *)
VerifySave ==
    /\ \E i \in DOMAIN flight.calls :
         /\ At(i, "verifyEmailOTP", "write")
         /\ users' = Update(users, flight.calls[i].userId, Confirmed)
         /\ Continue(i, Returned(flight.calls[i]))
    /\ UNCHANGED <<now, last, page, form>>

(* updateUserOTP, lines 27-30: getUserById; throw when there is none. *)
ResendFind ==
    /\ \E i \in DOMAIN flight.calls :
         /\ At(i, "updateUserOTP", "start")
         /\ LET call == flight.calls[i]
            IN  IF getUserById(users, call.userId).present
                THEN Continue(i, [call EXCEPT !.pc = "send"])
                ELSE Continue(i, Thrown(call, NotFound))
    /\ UNCHANGED <<users, now, last, page, form>>

(* createUser, line 10: UserModel.create. *)
CreateRow ==
    /\ \E i \in DOMAIN flight.calls :
         /\ At(i, "createUser", "start")
         /\ LET call == flight.calls[i]
                err == CreateError(users, Registrations[call.k])
            IN  IF err # ""
                THEN /\ Continue(i, Thrown(call, err))
                     /\ users' = users
                ELSE /\ users' = Append(users, NewRow(Registrations[call.k]))
                     /\ Continue(i, [call EXCEPT !.pc = "send",
                                                 !.userId = Len(users) + 1])
    /\ UNCHANGED <<now, last, page, form>>

(* Lines 11 and 33: sendConfirmationEmail resolves with the code. *)
SendEmail ==
    /\ \E i \in DOMAIN flight.calls :
         /\ flight.calls[i].pc = "send"
         /\ flight.calls[i].otp \in sendConfirmationEmail
         /\ Continue(i, [flight.calls[i] EXCEPT !.pc = "write"])
    /\ UNCHANGED <<users, now, last, page, form>>

(* Lines 14-20 and 36-42: UserModel.update of the code and its expiry. *)
WriteOtp ==
    /\ \E i \in DOMAIN flight.calls :
         /\ flight.calls[i].op \in {"createUser", "updateUserOTP"}
         /\ flight.calls[i].pc = "write"
         /\ users' = Update(users, flight.calls[i].userId,
                            OtpValues(flight.calls[i].otp, now))
         /\ Continue(i, Returned(flight.calls[i]))
    /\ UNCHANGED <<now, last, page, form>>

(* The calls the HTTP layer can issue together, about user 1 or a new user. *)
CallChoices ==
    { NewCall("verifyEmailOTP", 1, otp, 1) : otp \in Codes }
      \cup { NewCall("updateUserOTP", 1, otp, 1) : otp \in Codes }
      \cup { NewCall("createUser", 0, otp, k) : otp \in Codes, k \in 1..2 }

(* The tables the calls can find: no user, or Ann holding a code that has
   not expired. *)
StartTables ==
    { << >>, createUser(<< >>, Registrations[1], "111111", 0).users }

CallBatches == UNION { [1..n -> CallChoices] : n \in 1..MaxCalls }

InitConcurrent ==
    /\ users \in StartTables
    /\ now = 0
    /\ last = NoCall
    /\ page = NoPage
    /\ form = NoForm
    /\ \E calls \in CallBatches : flight = [start |-> users, calls |-> calls]

NextConcurrent ==
    \/ VerifyFind
    \/ VerifySave
    \/ ResendFind
    \/ CreateRow
    \/ SendEmail
    \/ WriteOtp

SpecConcurrent == InitConcurrent /\ [][NextConcurrent]_vars

AllDone == \A i \in DOMAIN flight.calls : flight.calls[i].pc = "done"

(* The call run alone on table us: the service operation as a whole. *)
Serve(us, call) ==
    CASE call.op = "verifyEmailOTP" ->
           verifyEmailOTP(us, call.userId, call.otp, now)
      [] call.op = "updateUserOTP" ->
           updateUserOTP(us, call.userId, call.otp, now)
      [] call.op = "createUser" ->
           createUser(us, Registrations[call.k], call.otp, now)

(* The table after the calls run one after the other in the given order,
   when each has the outcome it had; NoTable when one has another. *)
NoTable == << NoRow >>

RECURSIVE SerialTable(_, _, _)
SerialTable(us, calls, order) ==
    IF order = << >> THEN us
    ELSE LET call == calls[Head(order)]
             r == Serve(us, call)
         IN  IF r.ok = call.ok /\ r.err = call.err
             THEN SerialTable(r.users, calls, Tail(order))
             ELSE NoTable

Orders(n) == { o \in [1..n -> 1..n] : \A i, j \in 1..n : o[i] = o[j] => i = j }

Serializable ==
    \E order \in Orders(Len(flight.calls)) :
       SerialTable(flight.start, flight.calls, order) = users

(* C11: calls of verifyEmailOTP, updateUserOTP and createUser in progress
   together about the same user leave the table and the outcomes that some
   order of running them one after the other leaves; two verifyEmailOTP calls
   with the same code do not both succeed; and a verifyEmailOTP that
   succeeds beside an updateUserOTP leaves neither a confirmed user holding
   a code nor the new code discarded. *)
BothVerified ==
    \E i, j \in DOMAIN flight.calls :
       /\ i # j
       /\ flight.calls[i].op = "verifyEmailOTP" /\ flight.calls[i].ok
       /\ flight.calls[j].op = "verifyEmailOTP" /\ flight.calls[j].ok
       /\ flight.calls[i].userId = flight.calls[j].userId
       /\ flight.calls[i].otp = flight.calls[j].otp

VerifiedBesideResend(sameCode) ==
    \E i, j \in DOMAIN flight.calls :
       /\ flight.calls[i].op = "verifyEmailOTP" /\ flight.calls[i].ok
       /\ flight.calls[j].op = "updateUserOTP" /\ flight.calls[j].ok
       /\ flight.calls[i].userId = flight.calls[j].userId
       /\ (flight.calls[i].otp = flight.calls[j].otp) \in sameCode

C11_ConcurrentCallsSerializable ==
    AllDone =>
      /\ Serializable
      /\ ~BothVerified
      /\ VerifiedBesideResend(BOOLEAN) =>
           ~(users[1].email_confirmed
               /\ users[1].email_confirmation_otp # NullStr)
      /\ VerifiedBesideResend({FALSE}) =>
           users[1].email_confirmation_otp # NullStr

-----------------------------------------------------------------------------
(* createUser interrupted.  One createUser call runs await by await; the
   email dispatch or the update can reject, and the process can stop while
   the call waits.  createUser has no try/catch, so a rejection leaves the
   method as it came.  The service is then used again. *)

EmailError == "email dispatch failed"

DbError == "database unavailable"

Crashed == "process stopped"

(* Line 11: sendConfirmationEmail rejects. *)
SendFails ==
    /\ \E i \in DOMAIN flight.calls :
         /\ At(i, "createUser", "send")
         /\ Continue(i, Thrown(flight.calls[i], EmailError))
    /\ UNCHANGED <<users, now, last, page, form>>

(* Lines 14-20: UserModel.update rejects and writes nothing. *)
WriteFails ==
    /\ \E i \in DOMAIN flight.calls :
         /\ At(i, "createUser", "write")
         /\ Continue(i, Thrown(flight.calls[i], DbError))
    /\ UNCHANGED <<users, now, last, page, form>>

(* The process stops between line 10 and the update of lines 14-20. *)
Crash ==
    /\ \E i \in DOMAIN flight.calls :
         /\ flight.calls[i].op = "createUser"
         /\ flight.calls[i].pc \in {"send", "write"}
         /\ Continue(i, Thrown(flight.calls[i], Crashed))
    /\ UNCHANGED <<users, now, last, page, form>>

InitCrash ==
    /\ users \in StartTables
    /\ now = 0
    /\ last = NoCall
    /\ page = NoPage
    /\ form = NoForm
    /\ \E otp \in Codes, k \in 1..2 :
         flight = [start |-> users,
                   calls |-> << NewCall("createUser", 0, otp, k) >>]

NextCrash ==
    \/ CreateRow
    \/ SendEmail
    \/ WriteOtp
    \/ SendFails
    \/ WriteFails
    \/ Crash
    \/ AllDone /\ UpdateUserOTP
    \/ AllDone /\ VerifyEmailOTP
    \/ AllDone /\ Tick

SpecCrash == InitCrash /\ [][NextCrash]_vars

(* The createUser call has failed after it inserted its row. *)
Interrupted ==
    /\ flight.calls[1].pc = "done"
    /\ ~flight.calls[1].ok
    /\ flight.calls[1].userId # 0

(* C12: when createUser is interrupted after the row is created and before
   the code is stored, the call fails with the error that interrupted it;
   the table is the one before the call plus the new row, unconfirmed and
   with both code columns NULL; no verifyEmailOTP succeeds for that user;
   and updateUserOTP followed by verifyEmailOTP with the code it issued,
   before that code expires, confirms the account. *)
C12_InterruptedCreateIsRecoverable ==
    [][ (~Interrupted /\ Interrupted') =>
          LET call == flight.calls[1]
              id == call.userId
              row == users'[id]
          IN  /\ flight'.calls[1].err
                   \in (IF call.pc = "send" THEN {EmailError} ELSE {DbError})
                         \cup {Crashed}
              /\ users' = Append(flight.start, NewRow(Registrations[call.k]))
              /\ ~row.email_confirmed
              /\ row.email_confirmation_otp = NullStr
              /\ row.email_confirmation_otp_expires = NullTime
              /\ \A otp \in Codes, t \in Times :
                    ~verifyEmailOTP(users', id, otp, t).ok
              /\ \A otp \in sendConfirmationEmail :
                    LET r == updateUserOTP(users', id, otp, now)
                    IN  /\ r.ok
                        /\ \A t \in Times :
                              (now <= t /\ t < otpExpiry(now)) =>
                                 LET v == verifyEmailOTP(r.users, id, otp, t)
                                 IN  /\ v.ok
                                     /\ v.users[id].email_confirmed ]_vars

(* An interrupted createUser whose user was later confirmed through
   updateUserOTP and verifyEmailOTP. *)
C12_Witness ==
    /\ Interrupted
    /\ last.op = "verifyEmailOTP" /\ last.ok
    /\ last.id = flight.calls[1].userId
    /\ users[last.id].email_confirmed

-----------------------------------------------------------------------------
(* The greetings form (GreetingsForm.tsx).  form holds the component's
   state (greetings, files, fileError, isUploading), the await handleSubmit
   stands at (pc), the files and greetings its closure captured when it was
   called, the /upload requests sent ([run, index, name, state, url]) and
   the last body posted to /posts.  Each browser event and each settled
   request is one step; the promise continuations that follow a settled
   request run before the next event and belong to the same step. *)

MaxFiles == 2        \* files in the list
MaxSubmits == 2      \* submissions of the form

MAX_FILE_SIZE == 100 * 1024 * 1024

NoType == "undefined"

NoUrl == "undefined"

(* Lines 52-77, as <<type, subtype>> pairs. *)
allowedTypes ==
    [ image |-> { <<"image", sub>> :
                    sub \in {"jpeg", "png", "gif", "webp", "tiff", "bmp"} },
      video |-> { <<"video", sub>> :
                    sub \in {"mp4", "quicktime", "x-msvideo", "x-ms-wmv",
                             "webm", "3gpp"} },
      audio |-> { <<"audio", sub>> :
                    sub \in {"mpeg", "wav", "aac", "ogg", "webm", "flac"} } ]

(* Lines 79-93: the first type with an allowed MIME type that the file's
   type starts with or that ends with the file's extension. *)
detectFileType(file) ==
    LET Matches(type) ==
           \E mime \in allowedTypes[type] :
              file.type = mime \/ mime[2] = file.extension
    IN  CASE Matches("image") -> "image"
          [] Matches("video") -> "video"
          [] Matches("audio") -> "audio"
          [] OTHER -> NoType

(* Files the user can drop. *)
DroppedFiles ==
    << [name |-> "a.png", extension |-> "png", size |-> 1024,
        type |-> <<"image", "png">>],
       [name |-> "b.mp4", extension |-> "mp4", size |-> 2048,
        type |-> <<"video", "mp4">>],
       [name |-> "big.mp4", extension |-> "mp4", size |-> MAX_FILE_SIZE + 1,
        type |-> <<"video", "mp4">>],
       [name |-> "c.txt", extension |-> "txt", size |-> 1024,
        type |-> <<"text", "plain">>] >>

Greetings == {"", "hi"}

Urls == {"/media/1", "/media/2"}

UploadErrors == {"Network Error"}

PostErrors == {"Request failed with status code 500"}

TooLarge(name) == <<"File ", name, " is too large. Maximum size is 100MB.">>

Unsupported(name) == <<"File ", name, " is not a supported format.">>

FailedToSubmit(message) == <<"Failed to submit the form. ", message>>

(* Lines 118-130. *)
FileInfo(file) ==
    [ name |-> file.name, fileType |-> detectFileType(file),
      uploadProgress |-> 0, uploadStatus |-> "pending", uploadedUrl |-> NoUrl ]

(* setFiles(prev => prev.map(f => f.name === name ? {...f, ...values} : f)) *)
MarkFiles(files, name, values) ==
    [ i \in DOMAIN files |->
        IF files[i].name = name
        THEN [ c \in DOMAIN files[i] |->
                 IF c \in DOMAIN values THEN values[c] ELSE files[i][c] ]
        ELSE files[i] ]

(* Line 305. *)
isFormValid == form.greetings # ""

(* The /upload requests of the running handleSubmit, in the order of its
   files. *)
OwnUploads(f) == SelectSeq(f.uploads, LAMBDA u : u.run = f.runs)

(* Line 214: Promise.all rejects when one promise rejects and fulfils when
   all have fulfilled. *)
PromiseAll(uploads) ==
    IF \E i \in DOMAIN uploads : uploads[i].state = "failed" THEN "rejected"
    ELSE IF \E i \in DOMAIN uploads : uploads[i].state = "sent" THEN "pending"
    ELSE "fulfilled"

(* Lines 216-228. *)
PostData(f) ==
    LET uploadedUrls == [ i \in DOMAIN OwnUploads(f) |-> OwnUploads(f)[i].url ]
    IN  [ body |-> f.closure.greetings, status |-> "processing",
          score |-> "null",
          media |-> [ index \in DOMAIN uploadedUrls |->
                        [ type |-> f.closure.files[index].fileType,
                          url |-> uploadedUrls[index] ] ] ]

(* handleSubmit returns: its closure is dropped, and so are the settled
   requests; those still in flight go on. *)
Returns(f) ==
    [f EXCEPT !.pc = "idle", !.closure = NoForm.closure,
              !.uploads = SelectSeq(@, LAMBDA u : u.state = "sent")]

(* Lines 241-246: catch and finally. *)
Caught(f, message) ==
    Returns([f EXCEPT !.fileError = FailedToSubmit(message),
                      !.isUploading = FALSE])

(* Lines 214-234: handleSubmit after its await of Promise.all, if that has
   settled: it posts, or it catches. *)
AfterPromiseAll(f, message) ==
    IF f.pc # "uploads" THEN f
    ELSE CASE PromiseAll(OwnUploads(f)) = "pending" -> f
           [] PromiseAll(OwnUploads(f)) = "rejected" -> Caught(f, message)
           [] PromiseAll(OwnUploads(f)) = "fulfilled" ->
                [f EXCEPT !.pc = "posting", !.post = PostData(f)]

FormFrame == UNCHANGED <<users, now, last, page, flight>>

(* Lines 94-135: onDrop, one file dropped. *)
OnDrop ==
    /\ \E k \in DOMAIN DroppedFiles :
         LET file == DroppedFiles[k]
         IN  IF file.size > MAX_FILE_SIZE
             THEN form' = [form EXCEPT !.fileError = TooLarge(file.name)]
             ELSE IF detectFileType(file) = NoType
             THEN form' = [form EXCEPT !.fileError = Unsupported(file.name)]
             ELSE /\ Len(form.files) < MaxFiles
                  /\ form' = [form EXCEPT
                                !.files = Append(@, FileInfo(file)),
                                !.fileError = NoError]
    /\ FormFrame

(* Line 332: the text area. *)
SetGreetings ==
    /\ \E text \in Greetings \ {form.greetings} :
         form' = [form EXCEPT !.greetings = text]
    /\ FormFrame

(* Lines 249-259, and line 392: the button is disabled while the file's
   status is "uploading". *)
RemoveFile ==
    /\ \E index \in DOMAIN form.files :
         /\ form.files[index].uploadStatus # "uploading"
         /\ form' = [form EXCEPT
                       !.files = SubSeq(@, 1, index - 1)
                                   \o SubSeq(@, index + 1, Len(@))]
    /\ FormFrame

(* Lines 207-214, and line 364: the button is disabled unless the form is
   valid and not uploading.  files.map(uploadFile) sends every request. *)
HandleSubmit ==
    /\ isFormValid
    /\ ~form.isUploading
    /\ form.runs < MaxSubmits
    /\ LET run == form.runs + 1
           sent == [ i \in DOMAIN form.files |->
                       [ run |-> run, index |-> i, name |-> form.files[i].name,
                         state |-> "sent", url |-> NoUrl ] ]
           f == [form EXCEPT
                   !.isUploading = TRUE, !.pc = "uploads", !.runs = run,
                   !.closure = [files |-> form.files,
                                greetings |-> form.greetings],
                   !.uploads = SelectSeq(@, LAMBDA u : u.state = "sent")
                                 \o sent]
       IN  form' = AfterPromiseAll(f, "")
    /\ FormFrame

(* Lines 159-176: onUploadProgress. *)
UploadProgress ==
    /\ \E j \in DOMAIN form.uploads :
         /\ form.uploads[j].state = "sent"
         /\ form' = [form EXCEPT
                       !.files = MarkFiles(@, form.uploads[j].name,
                                   [uploadProgress |-> 50,
                                    uploadStatus |-> "uploading"])]
    /\ FormFrame

(* Lines 152-192: the request resolves. *)
UploadResolves ==
    /\ \E j \in DOMAIN form.uploads, url \in Urls :
         /\ form.uploads[j].state = "sent"
         /\ LET f == [form EXCEPT
                        !.uploads[j].state = "ok", !.uploads[j].url = url,
                        !.files = MarkFiles(@, form.uploads[j].name,
                                    [uploadStatus |-> "completed",
                                     uploadProgress |-> 100,
                                     uploadedUrl |-> url])]
            IN  form' = IF form.uploads[j].run = form.runs
                        THEN AfterPromiseAll(f, "") ELSE f
    /\ FormFrame

(* Lines 193-204: the request rejects. *)
UploadRejects ==
    /\ \E j \in DOMAIN form.uploads, message \in UploadErrors :
         /\ form.uploads[j].state = "sent"
         /\ LET f == [form EXCEPT
                        !.uploads[j].state = "failed",
                        !.files = MarkFiles(@, form.uploads[j].name,
                                    [uploadStatus |-> "error",
                                     uploadProgress |-> 0])]
            IN  form' = IF form.uploads[j].run = form.runs
                        THEN AfterPromiseAll(f, message) ELSE f
    /\ FormFrame

(* Lines 230-246: POST /posts resolves. *)
PostResolves ==
    /\ form.pc = "posting"
    /\ form' = Returns([form EXCEPT !.greetings = "", !.files = << >>,
                                    !.isUploading = FALSE])
    /\ FormFrame

(* Lines 230-246: POST /posts rejects. *)
PostRejects ==
    /\ form.pc = "posting"
    /\ \E message \in PostErrors : form' = Caught(form, message)
    /\ FormFrame

InitForm ==
    /\ users = << >>
    /\ now = 0
    /\ last = NoCall
    /\ page = NoPage
    /\ flight = NoFlight
    /\ form = NoForm

NextForm ==
    \/ OnDrop
    \/ SetGreetings
    \/ RemoveFile
    \/ HandleSubmit
    \/ UploadProgress
    \/ UploadResolves
    \/ UploadRejects
    \/ PostResolves
    \/ PostRejects

SpecForm == InitForm /\ [][NextForm]_vars

(* A request eventually settles, resolved or rejected. *)
Settles ==
    \/ UploadResolves
    \/ UploadRejects
    \/ PostResolves
    \/ PostRejects

SpecFormFair == SpecForm /\ WF_vars(Settles)

(* handleSubmit sends the POST to /posts in this step. *)
PostSent == form.pc # "posting" /\ form'.pc = "posting"

(* handleSubmit catches the rejection of an upload in this step. *)
UploadFailed == form.pc = "uploads" /\ form'.pc = "idle"

(* C13: when handleSubmit sends the POST to /posts, the upload of every file
   in the list has completed successfully and the media list holds one
   {type, url} entry per file, in list order; when an upload fails no POST
   is sent, the greeting text and the file list are not cleared and
   fileError is set. *)
C13_PostAfterEveryUpload ==
    [][ /\ PostSent =>
             /\ \A i \in DOMAIN form'.files :
                   form'.files[i].uploadStatus = "completed"
             /\ Len(form'.post.media) = Len(form'.files)
             /\ \A i \in DOMAIN form'.files :
                   /\ form'.post.media[i].type = form'.files[i].fileType
                   /\ form'.post.media[i].url \in Urls
        /\ UploadFailed =>
             /\ form'.post = form.post
             /\ form'.greetings = form.greetings
             /\ Len(form'.files) = Len(form.files)
             /\ form'.fileError # NoError ]_vars

(* The same for the files handleSubmit was called with. *)
PostAfterEveryOwnUpload ==
    [][ /\ PostSent =>
             LET files == form'.closure.files
                 own == OwnUploads(form')
             IN  /\ Len(own) = Len(files)
                 /\ Len(form'.post.media) = Len(files)
                 /\ \A i \in DOMAIN files :
                       /\ own[i].index = i /\ own[i].state = "ok"
                       /\ form'.post.media[i]
                            = [type |-> files[i].fileType, url |-> own[i].url]
        /\ UploadFailed =>
             /\ form'.post = form.post
             /\ form'.greetings = form.greetings
             /\ Len(form'.files) = Len(form.files)
             /\ form'.fileError # NoError
             /\ ~form'.isUploading ]_vars

(* isUploading eventually returns to false. *)
IsUploadingReturns == form.isUploading ~> ~form.isUploading

====
